---------------------------- MODULE Spec2Model ----------------------------
(***************************************************************************)
(* A model of the Sudoku solver of src/src/main.rs: the 16-bit per-cell    *)
(* possibility set (Cell), the grid index (BoardIdx, SquareIdx), the board *)
(* with its elimination rule (play_cell) and validity check (verify), the  *)
(* clue seeding loop of Board::from_str, and solve, whose branches run in  *)
(* parallel under rayon's find_map_any.                                    *)
(***************************************************************************)
EXTENDS Integers, Sequences, FiniteSets, TLC

(***************************************************************************)
(* Bounds of the model.  The clue stream handed to from_str follows a      *)
(* fixed solved grid (Solution); only its last OpenTail cells may deviate: *)
(* at most MaxHoles of them are empty ('x') before the text ends, the text *)
(* may end anywhere among them, and at most MaxAltered of them carry       *)
(* another digit than the solved grid's.  Two sparse puzzles on the same   *)
(* grid (SparseStreams) are read besides.                                  *)
(***************************************************************************)
OpenTail == 18

MaxHoles == 1

MaxAltered == 1

(***************************************************************************)
(* Program constants.                                                      *)
(***************************************************************************)
BOARD_CELLS == 81

\* u16::MAX, the raw value of Cell::any_possible()
U16_MAX == 65535

\* usize::MAX, the initial least_possibilities of solve.  The model's
\* integers are 32-bit; the value is only ever compared with counts 0..9.
USIZE_MAX == 2147483647

None == << >>

Some(x) == << x >>

\* a let binding: F applied to the value of v, which is evaluated once
Let(v, F(_)) == CHOOSE r \in {F(x) : x \in {v}} : TRUE

Range(s) == {s[i] : i \in DOMAIN s}

(***************************************************************************)
(* Cell(u16): the nth bit tells whether the number n is possible.          *)
(***************************************************************************)
Pow2(n) == 2 ^ n

Bit(x, n) == (x \div Pow2(n)) % 2

fixed(num) == Pow2(num)

any_possible == U16_MAX

none_possible == 0

\* self.0 & 0b1111111110: bits 1..9 of the raw value
important_bits(cell) == (cell % 1024) - (cell % 2)

is_possible(cell, num) == Bit(cell, num) = 1

\* set_possible that flips the bit where it should clear it
set_possible_Flip(cell, num, possible) ==
    IF possible
    THEN IF Bit(cell, num) = 1 THEN cell ELSE cell + Pow2(num)
    ELSE IF Bit(cell, num) = 1 THEN cell - Pow2(num) ELSE cell + Pow2(num)

\* set_possible that takes the first arm whatever possible is: it sets the bit
set_possible_Always(cell, num, possible) ==
    IF Bit(cell, num) = 1 THEN cell ELSE cell + Pow2(num)

set_possible(cell, num, possible) ==
    IF possible
    THEN IF Bit(cell, num) = 1 THEN cell ELSE cell + Pow2(num)
    ELSE IF Bit(cell, num) = 1 THEN cell - Pow2(num) ELSE cell

possibilities(cell) ==
    SelectSeq(<<1, 2, 3, 4, 5, 6, 7, 8, 9>>, LAMBDA num : is_possible(cell, num))

num_possibilities(cell) == Len(possibilities(cell))

\* the equality #[derive(PartialEq)] would give: on the raw values
CellEq_Raw(a, b) == a = b

\* impl PartialEq for Cell
CellEq(a, b) == important_bits(a) = important_bits(b)

(***************************************************************************)
(* BoardIdx and SquareIdx.  A BoardIdx is modelled by its linear address   *)
(* idx = col + row * 9; a SquareIdx by its to_idx() number 0..8.           *)
(***************************************************************************)
BoardIdxNew(col, row) == col + row * 9

ColOf(idx) == idx % 9

RowOf(idx) == idx \div 9

square(idx) == (ColOf(idx) \div 3) + 3 * (RowOf(idx) \div 3)

to_topleft_cell(sq) == BoardIdxNew(3 * (sq % 3), 3 * (sq \div 3))

(***************************************************************************)
(* Board: cells is the array of 81 raw Cell values, played the HashSet of  *)
(* committed addresses.                                                    *)
(***************************************************************************)
Idxs == 0 .. (BOARD_CELLS - 1)

NewBoard == [cells |-> [i \in Idxs |-> any_possible], played |-> {}]

get(board, idx) == board.cells[idx]

iter_square(sq) ==
    [k \in 1 .. 9 |->
        BoardIdxNew(((k - 1) \div 3) + ColOf(to_topleft_cell(sq)),
                    ((k - 1) % 3) + RowOf(to_topleft_cell(sq)))]

iter_col(col) == [k \in 1 .. 9 |-> BoardIdxNew(col, k - 1)]

iter_row(row) == [k \in 1 .. 9 |-> BoardIdxNew(k - 1, row)]

\* Itertools::unique: the first occurrence of each element, in order.
\* first holds the positions of the first occurrences.
unique(s) ==
    LET first == SelectSeq([k \in 1 .. Len(s) |-> k],
                           LAMBDA k : \A j \in 1 .. (k - 1) : s[j] # s[k])
    IN  SubSeq([n \in 1 .. Len(first) |-> s[first[n]]], 1, Len(first))

\* ToUpdate without the square: only the column and the row are visited
ToUpdate_NoSquare(idx) ==
    unique(iter_col(ColOf(idx)) \o iter_row(RowOf(idx)))

\* the cells play_cell visits: square, then column, then row, deduplicated
ToUpdate(idx) ==
    unique(iter_square(square(idx)) \o iter_col(ColOf(idx)) \o iter_row(RowOf(idx)))

\* ToUpdate for every cell, as a table: its entry idx + 1 is ToUpdate(idx)
ToUpdateOf ==
    SubSeq([k \in 1 .. BOARD_CELLS |-> ToUpdate(k - 1)], 1, BOARD_CELLS)

\* UpdateCell without the test to_update == idx: the played cell loses its
\* own digit again
UpdateCell_NoSkip(cell, idx, to_update, num) ==
    set_possible(cell, num, FALSE)

\* the loop body of play_cell for the visited cell to_update, whose value is
\* cell: the value the body leaves in it
UpdateCell(cell, idx, to_update, num) ==
    IF to_update = idx THEN cell
    ELSE set_possible(cell, num, FALSE)

\* the loop of play_cell over seq.  unique() makes the loop visit every cell
\* of seq once and the body writes the visited cell only, so the loop leaves
\* in each visited cell what one run of the body leaves there.  (@@ << >>
\* leaves the function as it is; it makes it a table.)
PlayLoop(cells, idx, num, seq) ==
    Let(Range(seq), LAMBDA visited :
        [to_update \in Idxs |->
            IF to_update \in visited
            THEN UpdateCell(cells[to_update], idx, to_update, num)
            ELSE cells[to_update]] @@ << >>)

set_raw(cells, idx, cell) == [cells EXCEPT ![idx] = cell]

play_cell(board, idx, num) ==
    [played |-> board.played \cup {idx},
     cells  |-> PlayLoop(set_raw(board.cells, idx, fixed(num)),
                         idx, num, ToUpdateOf[idx + 1])]

\* the 27 sequences verify walks: columns, then rows, then squares
VerifySeqs ==
    [g \in 1 .. 27 |->
        IF g <= 9 THEN iter_col(g - 1)
        ELSE IF g <= 18 THEN iter_row(g - 10)
        ELSE iter_square(g - 19)]

\* the numbers the loop has inserted into seen before it comes to the k-th
\* element, ps being the possibilities of the elements of the sequence
Seen(ps, k) == {ps[j][1] : j \in {i \in 1 .. (k - 1) : Len(ps[i]) = 1}}

\* VerifyElem without the arm [] => return Err(()): an empty cell passes
VerifyElem_NoEmpty(ps, k) ==
    IF Len(ps[k]) = 1 THEN ps[k][1] \notin Seen(ps, k)
    ELSE TRUE

\* VerifyElem without the test of seen.insert: a repeated number passes
VerifyElem_NoDup(ps, k) ==
    IF Len(ps[k]) = 0 THEN FALSE
    ELSE TRUE

\* the match on the k-th element: FALSE for return Err(())
VerifyElem(ps, k) ==
    IF Len(ps[k]) = 0 THEN FALSE
    ELSE IF Len(ps[k]) = 1 THEN ps[k][1] \notin Seen(ps, k)
    ELSE TRUE

\* the inner loop of verify over one sequence: it runs through (TRUE) when
\* no element returns Err(())
VerifySeq(board, seq) ==
    Let(SubSeq([k \in 1 .. Len(seq) |-> possibilities(get(board, seq[k]))], 1, Len(seq)),
        LAMBDA ps : \A k \in 1 .. Len(ps) : VerifyElem(ps, k))

\* TRUE for Ok(()), FALSE for Err(())
verify(board) == \A g \in 1 .. 27 : VerifySeq(board, VerifySeqs[g])


(***************************************************************************)
(* The scan loop of solve (lines 338-359): iproduct!(0..9, 0..9) yields    *)
(* (col, row) with col the outer and row the inner coordinate.  A scan     *)
(* state holds the local board, least_possibilities,                       *)
(* least_possibilities_cell and whether the loop has returned None.        *)
(***************************************************************************)
ScanStart(board) ==
    [board |-> board,
     least_possibilities |-> USIZE_MAX,
     least_possibilities_cell |-> None,
     returned_none |-> FALSE]

\* ScanStep with the loop variables swapped: for (row, col) in iproduct!(..)
ScanStep_RowMajor(s, k) ==
    LET idx == BoardIdxNew(k % 9, k \div 9)
        n   == num_possibilities(get(s.board, idx))
    IN  IF s.returned_none THEN s
        ELSE IF idx \in s.board.played THEN s
        ELSE IF n = 0 THEN [s EXCEPT !.returned_none = TRUE]
        ELSE IF n = 1
             THEN [s EXCEPT !.board =
                       play_cell(s.board, idx, possibilities(get(s.board, idx))[1])]
        ELSE IF s.least_possibilities > n
             THEN [s EXCEPT !.least_possibilities = n,
                            !.least_possibilities_cell = Some(idx)]
        ELSE s

\* ScanStep that tracks the first open cell it meets, whatever its count
ScanStep_FirstOpen(s, k) ==
    LET idx == BoardIdxNew(k \div 9, k % 9)
        n   == num_possibilities(get(s.board, idx))
    IN  IF s.returned_none THEN s
        ELSE IF idx \in s.board.played THEN s
        ELSE IF n = 0 THEN [s EXCEPT !.returned_none = TRUE]
        ELSE IF n = 1
             THEN [s EXCEPT !.board =
                       play_cell(s.board, idx, possibilities(get(s.board, idx))[1])]
        ELSE IF s.least_possibilities_cell = None
             THEN [s EXCEPT !.least_possibilities = n,
                            !.least_possibilities_cell = Some(idx)]
        ELSE s

\* the k-th iteration of the loop.  iproduct!(0..9, 0..9) yields (col, row)
\* with row running fastest, so its k-th pair is (k / 9, k % 9).  After
\* return None no further iteration runs.
ScanStep(s, k) ==
    LET idx == BoardIdxNew(k \div 9, k % 9)
        n   == num_possibilities(get(s.board, idx))
    IN  IF s.returned_none THEN s
        ELSE IF idx \in s.board.played THEN s
        ELSE IF n = 0 THEN [s EXCEPT !.returned_none = TRUE]
        ELSE IF n = 1
             THEN [s EXCEPT !.board =
                       play_cell(s.board, idx, possibilities(get(s.board, idx))[1])]
        ELSE IF s.least_possibilities > n
             THEN [s EXCEPT !.least_possibilities = n,
                            !.least_possibilities_cell = Some(idx)]
        ELSE s

\* the iterations lo .. hi - 1 of the loop, in order: the first half of
\* them, then the second half on the state t the first half leaves
RECURSIVE ScanRange(_, _, _)
ScanRange(s, lo, hi) ==
    IF hi - lo = 1 THEN ScanStep(s, lo)
    ELSE Let(ScanRange(s, lo, (lo + hi) \div 2),
             LAMBDA t : ScanRange(t, (lo + hi) \div 2, hi))

\* a scan that leaves out the last column: iproduct!(0..8, 0..9)
Scan_Short(board) == ScanRange(ScanStart(board), 0, BOARD_CELLS - 9)

Scan(board) == ScanRange(ScanStart(board), 0, BOARD_CELLS)

\* the closure handed to find_map_any, up to its call of solve:
\* the board a branch starts from
\* a branch that recurses on the clone without playing the cell
BranchBoard_Unplayed(board, next, possibility) == board

BranchBoard(board, next, possibility) == play_cell(board, next, possibility)

\* solve as a whole: the set of boards a call of solve on board may return
\* (find_map_any returns the result of any branch that found one); the empty
\* set stands for None
RECURSIVE SolveSet(_)
SolveSet(board) ==
    IF ~verify(board) THEN {}
    ELSE LET s == Scan(board)
         IN  IF s.returned_none THEN {}
             ELSE IF s.least_possibilities_cell = None THEN {s.board}
             ELSE UNION {SolveSet(BranchBoard(s.board, s.least_possibilities_cell[1], d)) :
                            d \in Range(possibilities(get(s.board,
                                                          s.least_possibilities_cell[1])))}

(***************************************************************************)
(* The clue stream.  Solution is a solved grid in row-major order;         *)
(* from_str reads one value per cell: a digit, or -1 for 'x' and for the   *)
(* cells past the end of the text.                                         *)
(***************************************************************************)
Solution ==
    << 6, 5, 7, 9, 3, 2, 1, 8, 4,
       9, 8, 3, 6, 4, 1, 5, 2, 7,
       1, 2, 4, 7, 5, 8, 3, 6, 9,
       2, 1, 5, 3, 9, 6, 4, 7, 8,
       3, 4, 8, 1, 2, 7, 6, 9, 5,
       7, 9, 6, 5, 8, 4, 2, 3, 1,
       8, 6, 1, 4, 7, 3, 9, 5, 2,
       4, 7, 9, 2, 6, 5, 8, 1, 3,
       5, 3, 2, 8, 1, 9, 7, 4, 6 >>

Holes(g) == Cardinality({i \in DOMAIN g : g[i] = -1})

Altered(g) == Cardinality({i \in DOMAIN g : g[i] # -1 /\ g[i] # Solution[i]})

\* Two sparse puzzles, by the addresses of their empty cells.  In BlankA
\* the digits 4 and 7 are missing from six cells that all keep both of them
\* (two completions); in BlankB thirteen cells are empty, some with three
\* candidates, some forced (one completion).
BlankA == {37, 41, 45, 50, 63, 64}

BlankB == {9, 10, 11, 36, 38, 43, 46, 49, 54, 60, 65, 71, 77}

\* the stream of the solved grid with the cells of blank written as 'x'
Sparse(blank) ==
    [i \in 1 .. BOARD_CELLS |-> IF i - 1 \in blank THEN -1 ELSE Solution[i]]

SparseStreams == {Sparse(BlankA), Sparse(BlankB)}

\* The values the next cell of the stream may carry, after the values g.
\* A stream is one of the sparse puzzles, or follows the solved grid up to
\* its last OpenTail cells (tail).  There, more than MaxHoles values -1 mean
\* that the text has ended: from then on the stream yields -1 only
\* (iter::repeat(-1)).
ClueChoices(g) ==
    LET i    == Len(g) + 1
        open == i > BOARD_CELLS - OpenTail
        tail == \A k \in DOMAIN g : k <= BOARD_CELLS - OpenTail => g[k] = Solution[k]
    IN  (IF ~tail THEN {}
         ELSE IF Holes(g) > MaxHoles THEN {-1}
         ELSE {Solution[i]}
              \cup (IF open THEN {-1} ELSE {})
              \cup (IF open /\ Altered(g) < MaxAltered
                    THEN (1 .. 9) \ {Solution[i]} ELSE {}))
        \cup {t[i] : t \in {u \in SparseStreams : SubSeq(u, 1, Len(g)) = g}}

(***************************************************************************)
(* State.                                                                  *)
(*   pc     where main is: in from_str, in solve, or done                  *)
(*   given  the values from_str has read so far, one per seeded cell       *)
(*   board  the board from_str builds                                      *)
(*   calls  the calls of solve made so far, by the path of branch digits   *)
(*          that leads to them (the root call is << >>); each holds its    *)
(*          own board, its state, the cell it branches on and its result   *)
(*   ret    the result main receives                                       *)
(***************************************************************************)
VARIABLES pc, given, board, calls, ret

vars == <<pc, given, board, calls, ret>>

Init ==
    /\ pc = "from_str"
    /\ given = << >>
    /\ board = NewBoard
    /\ calls = << >>
    /\ ret = None

\* from_str with the coordinates swapped: BoardIdx::new(row, col)
FromStrStep_Transposed ==
    /\ pc = "from_str"
    /\ Len(given) < BOARD_CELLS
    /\ \E v \in ClueChoices(given) :
          /\ given' = Append(given, v)
          /\ board' = IF v >= 0
                      THEN play_cell(board,
                                     BoardIdxNew(RowOf(Len(given)), ColOf(Len(given))), v)
                      ELSE board
    /\ UNCHANGED <<pc, calls, ret>>

\* one iteration of the seeding loop of from_str
FromStrStep ==
    /\ pc = "from_str"
    /\ Len(given) < BOARD_CELLS
    /\ \E v \in ClueChoices(given) :
          /\ given' = Append(given, v)
          /\ board' = IF v >= 0 THEN play_cell(board, Len(given), v) ELSE board
    /\ UNCHANGED <<pc, calls, ret>>

NewCall(b) ==
    [board |-> b, state |-> "unexplored", next |-> None, ret |-> None]

\* main: from_str has returned, solve(board) is called
CallSolve ==
    /\ pc = "from_str"
    /\ Len(given) = BOARD_CELLS
    /\ pc' = "solve"
    /\ calls' = (<< >> :> NewCall(board))
    /\ UNCHANGED <<given, board, ret>>

\* Verify without the verify check: every board is taken as valid
Verify_Skipped(p) ==
    /\ calls[p].state = "unexplored"
    /\ calls' = [calls EXCEPT ![p].state = "propagating"]
    /\ UNCHANGED <<pc, given, board, ret>>

\* solve, lines 334-336
Verify(p) ==
    /\ calls[p].state = "unexplored"
    /\ calls' = [calls EXCEPT ![p].state =
                    IF verify(calls[p].board) THEN "propagating" ELSE "failed"]
    /\ UNCHANGED <<pc, given, board, ret>>

\* Propagate that returns None where no least cell was tracked
Propagate_NoneAtEnd(p) ==
    /\ calls[p].state = "propagating"
    /\ LET s == Scan(calls[p].board)
       IN  calls' = [calls EXCEPT ![p] =
               IF s.returned_none \/ s.least_possibilities_cell = None
               THEN [@ EXCEPT !.board = s.board, !.state = "failed"]
               ELSE [@ EXCEPT !.board = s.board, !.state = "branching",
                              !.next = s.least_possibilities_cell]]
    /\ UNCHANGED <<pc, given, board, ret>>

\* solve, lines 338-364: the scan, then the test of least_possibilities_cell
Propagate(p) ==
    /\ calls[p].state = "propagating"
    /\ LET s == Scan(calls[p].board)
       IN  calls' = [calls EXCEPT ![p] =
               IF s.returned_none
               THEN [@ EXCEPT !.board = s.board, !.state = "failed"]
               ELSE IF s.least_possibilities_cell = None
               THEN [@ EXCEPT !.board = s.board, !.state = "solved",
                              !.ret = Some(s.board)]
               ELSE [@ EXCEPT !.board = s.board, !.state = "branching",
                              !.next = s.least_possibilities_cell]]
    /\ UNCHANGED <<pc, given, board, ret>>

Children(p) == {q \in DOMAIN calls : Len(q) = Len(p) + 1 /\ SubSeq(q, 1, Len(p)) = p}

Finished(q) == calls[q].state \in {"solved", "failed"}

\* a branch for every digit, candidate or not
BranchDigits_All(p) == 1 .. 9

BranchDigits(p) == Range(possibilities(get(calls[p].board, calls[p].next[1])))

\* StartBranch without board.clone(): the cell is played on the board of the
\* branching call, which the new call then shares
StartBranch_Shared(p, possibility) ==
    /\ calls[p].state = "branching"
    /\ possibility \in BranchDigits(p)
    /\ Append(p, possibility) \notin DOMAIN calls
    /\ \A q \in Children(p) : calls[q].state # "solved"
    /\ calls' = [calls EXCEPT ![p].board =
                    BranchBoard(calls[p].board, calls[p].next[1], possibility)]
          @@ (Append(p, possibility) :>
                NewCall(BranchBoard(calls[p].board, calls[p].next[1], possibility)))
    /\ UNCHANGED <<pc, given, board, ret>>

\* solve, lines 367-371: a worker takes one possibility, clones the board,
\* plays the cell and calls solve; no item is taken once one has been found
StartBranch(p, possibility) ==
    /\ calls[p].state = "branching"
    /\ possibility \in BranchDigits(p)
    /\ Append(p, possibility) \notin DOMAIN calls
    /\ \A q \in Children(p) : calls[q].state # "solved"
    /\ calls' = calls @@
          (Append(p, possibility) :>
              NewCall(BranchBoard(calls[p].board, calls[p].next[1], possibility)))
    /\ UNCHANGED <<pc, given, board, ret>>

\* Join giving up at the first failed branch: fails once any branch has failed
Join_AnyFailed(p) ==
    /\ calls[p].state = "branching"
    /\ \A q \in Children(p) : Finished(q)
    /\ \/ \E q \in Children(p) :
             /\ calls[q].state = "solved"
             /\ \A r \in Children(p) : calls[r].state = "solved"
             /\ calls' = [calls EXCEPT ![p].state = "solved", ![p].ret = calls[q].ret]
       \/ /\ \E q \in Children(p) : calls[q].state = "failed"
          /\ calls' = [calls EXCEPT ![p].state = "failed"]
       \/ /\ Children(p) = {}
          /\ BranchDigits(p) = {}
          /\ calls' = [calls EXCEPT ![p].state = "failed"]
    /\ UNCHANGED <<pc, given, board, ret>>

\* Join that gives up before every possibility was tried: it fails as soon
\* as the branches taken so far have all failed
Join_NotAllTried(p) ==
    /\ calls[p].state = "branching"
    /\ \A q \in Children(p) : Finished(q)
    /\ \/ \E q \in Children(p) :
             /\ calls[q].state = "solved"
             /\ calls' = [calls EXCEPT ![p].state = "solved", ![p].ret = calls[q].ret]
       \/ /\ \A q \in Children(p) : calls[q].state = "failed"
          /\ calls' = [calls EXCEPT ![p].state = "failed"]
    /\ UNCHANGED <<pc, given, board, ret>>

\* solve, lines 367-372: find_map_any returns once the branches taken have
\* all returned: a found result, or None when every possibility was tried
Join(p) ==
    /\ calls[p].state = "branching"
    /\ \A q \in Children(p) : Finished(q)
    /\ \/ \E q \in Children(p) :
             /\ calls[q].state = "solved"
             /\ calls' = [calls EXCEPT ![p].state = "solved", ![p].ret = calls[q].ret]
       \/ /\ \A q \in Children(p) : calls[q].state = "failed"
          /\ \A d \in BranchDigits(p) : Append(p, d) \in DOMAIN calls
          /\ calls' = [calls EXCEPT ![p].state = "failed"]
    /\ UNCHANGED <<pc, given, board, ret>>

\* main, line 391: solve has returned
MainReturn ==
    /\ pc = "solve"
    /\ Finished(<< >>)
    /\ pc' = "done"
    /\ ret' = calls[<< >>].ret
    /\ UNCHANGED <<given, board, calls>>

Next ==
    \/ FromStrStep
    \/ CallSolve
    \/ \E p \in DOMAIN calls : Verify(p)
    \/ \E p \in DOMAIN calls : Propagate(p)
    \/ \E p \in DOMAIN calls : \E d \in 1 .. 9 : StartBranch(p, d)
    \/ \E p \in DOMAIN calls : Join(p)
    \/ MainReturn

Spec == Init /\ [][Next]_vars

FairSpec == Spec /\ WF_vars(Next)


(***************************************************************************)
(* Vocabulary of the properties: candidate sets, the 27 groups and the     *)
(* peers of a cell, stated from the rules of the puzzle and not from the   *)
(* iterators of the program.                                               *)
(***************************************************************************)
Digits == 1 .. 9

Cand(b, i) == {n \in Digits : is_possible(b.cells[i], n)}

SameRow(i, j) == i \div 9 = j \div 9

SameCol(i, j) == i % 9 = j % 9

SameBlock(i, j) ==
    /\ (i \div 9) \div 3 = (j \div 9) \div 3
    /\ (i % 9) \div 3 = (j % 9) \div 3

Peer(i, j) == i # j /\ (SameRow(i, j) \/ SameCol(i, j) \/ SameBlock(i, j))

PeersOf == [i \in Idxs |-> {j \in Idxs : Peer(i, j)}]

Groups ==
    {{i \in Idxs : i \div 9 = r} : r \in 0 .. 8}
    \cup {{i \in Idxs : i % 9 = c} : c \in 0 .. 8}
    \cup {{i \in Idxs : (i \div 9) \div 3 = k \div 3 /\ (i % 9) \div 3 = k % 3} :
             k \in 0 .. 8}

\* every cell has exactly one candidate, every group holds every digit once
ValidSolution(b) ==
    /\ \A i \in Idxs : Cardinality(Cand(b, i)) = 1
    /\ \A G \in Groups : \A d \in Digits :
          Cardinality({i \in G : Cand(b, i) = {d}}) = 1

\* two clues of the stream g carry the same digit in one group
Clash(g) ==
    \E i \in DOMAIN g :
        /\ g[i] > 0
        /\ \E j \in PeersOf[i - 1] : j + 1 \in DOMAIN g /\ g[j + 1] = g[i]

\* Whether the clues g have a completion, decided without the solver: the
\* cells are filled in row-major order, each with its clue or with any
\* digit that no earlier peer holds.
EarlierPeers == [i \in 1 .. BOARD_CELLS |-> {j \in 1 .. (i - 1) : Peer(i - 1, j - 1)}]

RECURSIVE Completable(_, _)
Completable(g, grid) ==
    IF Len(grid) = BOARD_CELLS THEN TRUE
    ELSE LET i == Len(grid) + 1
         IN  \E d \in (IF g[i] > 0 THEN {g[i]} ELSE Digits) :
                /\ \A j \in EarlierPeers[i] : grid[j] # d
                /\ Completable(g, Append(grid, d))

HasCompletion(g) == Completable(g, << >>)

Root == << >>

(***************************************************************************)
(* C1.  Whenever solve returns Some(b) for a board built by from_str,      *)
(* every one of the 81 cells of b has exactly one candidate digit and each *)
(* of the 27 groups of b contains each digit 1-9 exactly once.  Stated for *)
(* every call of solve that has returned Some, and for the result main     *)
(* receives.                                                               *)
(***************************************************************************)
C1_SolvedIsValid ==
    /\ \A p \in DOMAIN calls :
          calls[p].state = "solved" => ValidSolution(calls[p].ret[1])
    /\ (pc = "done" /\ ret # None) => ValidSolution(ret[1])

\* a search that had to branch has returned a solution to main
C1_Witness ==
    /\ pc = "done"
    /\ ret # None
    /\ Cardinality(DOMAIN calls) > 3
    /\ Holes(given) > MaxHoles

(***************************************************************************)
(* C2.  solve returns None only when the input board has no valid          *)
(* completion: whenever a full assignment exists that respects the clues   *)
(* and the uniqueness constraint, main receives Some board, under every    *)
(* interleaving of the parallel branches.                                  *)
(***************************************************************************)
C2_NoneOnlyIfNoCompletion ==
    (pc = "done" /\ ret = None) => ~HasCompletion(given)

\* a solution was returned although one of the branches of the search failed
C2_Witness ==
    /\ pc = "done"
    /\ ret # None
    /\ \E q \in DOMAIN calls : calls[q].state = "failed"

(***************************************************************************)
(* C3.  The board solve returns is a completion of its input: every cell   *)
(* seeded with a clue holds that digit in the returned board; and a stream *)
(* that leaves one cell of the solved grid empty gets that grid back.      *)
(***************************************************************************)
C3_CompletionOfInput ==
    /\ (pc = "done" /\ ret # None) =>
          \A i \in 1 .. BOARD_CELLS :
              given[i] > 0 => Cand(ret[1], i - 1) = {given[i]}
    /\ (pc = "done" /\ Holes(given) = 1 /\ Altered(given) = 0) =>
          /\ ret # None
          /\ \A i \in 1 .. BOARD_CELLS : Cand(ret[1], i - 1) = {Solution[i]}

\* the one-empty-cell scenario has run to its end
C3_Witness ==
    /\ pc = "done"
    /\ Holes(given) = 1
    /\ Altered(given) = 0
    /\ ret # None


Parent(q) == SubSeq(q, 1, Len(q) - 1)

Last(q) == q[Len(q)]

\* this step is an iteration of from_str that plays a clue
SeedPlay ==
    /\ pc = "from_str"
    /\ Len(given') = Len(given) + 1
    /\ given'[Len(given')] > 0

\* the calls of solve this step starts
Started == (DOMAIN calls') \ (DOMAIN calls)

(***************************************************************************)
(* C4.  Every call of solve terminates: under fair scheduling main         *)
(* receives a result; each call below the root works on a board with more  *)
(* played cells than its parent's, so no call is more than 81 deep.        *)
(***************************************************************************)
DepthInv ==
    \A q \in DOMAIN calls :
        /\ Len(q) <= Cardinality(calls[q].board.played)
        /\ Cardinality(calls[q].board.played) <= BOARD_CELLS
        /\ q # Root =>
              Cardinality(calls[q].board.played)
                  > Cardinality(calls[Parent(q)].board.played)

C4_Terminates == [] DepthInv /\ <>(pc = "done")

\* a search three calls deep has returned
C4_Witness ==
    /\ pc = "done"
    /\ \E q \in DOMAIN calls : Len(q) >= 3

(***************************************************************************)
(* C5.  When two distinct cells of one row, column or block are seeded     *)
(* with the same digit, solve returns None whatever the other clues are:   *)
(* the root call fails at its verify check and goes no further.  Read the  *)
(* other way round: the root call gets past verify, starts a branch or     *)
(* returns a board only when the clues have no such pair.                  *)
(***************************************************************************)
PastRootVerify ==
    \/ calls[Root].state \notin {"unexplored", "failed"}
    \/ Cardinality(DOMAIN calls) # 1
    \/ pc = "done" /\ ret # None

C5_ClashGivesNone ==
    (pc # "from_str" /\ PastRootVerify) => ~Clash(given)

\* a stream with a clash and with an empty cell has been solved
C5_Witness ==
    /\ pc = "done"
    /\ Clash(given)
    /\ Holes(given) >= 1
    /\ ret = None

(***************************************************************************)
(* C6.  verify returns invalid exactly when some cell has no candidate or  *)
(* some group has two distinct cells that hold the same single candidate;  *)
(* it returns valid otherwise, also with undetermined cells, and it leaves *)
(* the board as it is.                                                     *)
(***************************************************************************)
Invalid(b) ==
    LET cand == [i \in Idxs |-> Cand(b, i)]
    IN  \/ \E i \in Idxs : cand[i] = {}
        \/ \E G \in Groups : \E i, j \in G :
              /\ i # j
              /\ Cardinality(cand[i]) = 1
              /\ cand[i] = cand[j]

C6_VerifyExact ==
    [][\A p \in DOMAIN calls :
          (calls[p].state = "unexplored" /\ calls'[p].state # "unexplored") =>
              /\ calls'[p].board = calls[p].board
              /\ calls'[p].state = "propagating" <=> ~Invalid(calls[p].board)
              /\ calls'[p].state = "failed" <=> Invalid(calls[p].board)]_vars

\* verify has accepted a board that still has undetermined cells
C6_Witness ==
    \E p \in DOMAIN calls :
        /\ calls[p].state = "propagating"
        /\ \E i \in Idxs : Cardinality(Cand(calls[p].board, i)) >= 2

(***************************************************************************)
(* C7.  After play_cell(a, d) the cell a holds exactly {d}, a is played,   *)
(* d is removed from the 20 other cells of a's row, column and block, and  *)
(* nothing else changes: the peers keep their other candidates, the cells  *)
(* outside the three groups keep their value, the played set gains only a. *)
(* Stated of every play_cell of from_str and of every branch commit.       *)
(***************************************************************************)
Frame(b, b2, a, d) ==
    /\ Cand(b2, a) = {d}
    /\ b2.played = b.played \cup {a}
    /\ Cardinality(PeersOf[a]) = 20
    /\ \A i \in PeersOf[a] : Cand(b2, i) = Cand(b, i) \ {d}
    /\ \A i \in Idxs \ (PeersOf[a] \cup {a}) : b2.cells[i] = b.cells[i]

C7_PlayCellFrame ==
    [][/\ SeedPlay => Frame(board, board', Len(given), given'[Len(given')])
       /\ \A q \in Started \ {Root} :
             Frame(calls[Parent(q)].board, calls'[q].board,
                   calls[Parent(q)].next[1], Last(q))]_vars

\* a branch commit has removed its digit from a peer that keeps another candidate
C7_Witness ==
    \E q \in DOMAIN calls \ {Root} :
        /\ calls[q].state = "unexplored"
        /\ \E i \in PeersOf[calls[Parent(q)].next[1]] :
              /\ Last(q) \in Cand(calls[Parent(q)].board, i)
              /\ Last(q) \notin Cand(calls[q].board, i)
              /\ Cand(calls[q].board, i) # {}

(***************************************************************************)
(* C8.  play_cell is idempotent and only tightens the other cells:         *)
(* play_cell(a, d) applied to its own result changes nothing, and no       *)
(* play_cell (a clue, a forced commit, a branch commit) adds a candidate   *)
(* to a cell other than the ones it plays.                                 *)
(***************************************************************************)
Idempotent(b, a, d) ==
    play_cell(play_cell(b, a, d), a, d) = play_cell(b, a, d)

Tightens(b, b2) ==
    \A i \in Idxs \ (b2.played \ b.played) :
        b2.cells[i] = b.cells[i] \/ Cand(b2, i) \subseteq Cand(b, i)

C8_PlayCellIdempotent ==
    /\ [] ((pc = "from_str" /\ Len(given) = BOARD_CELLS - OpenTail) =>
              \A a \in Idxs : \A d \in Digits : Idempotent(board, a, d))
    /\ [][/\ SeedPlay =>
                /\ play_cell(board', Len(given), given'[Len(given')]) = board'
                /\ Tightens(board, board')
          /\ \A q \in Started \ {Root} :
                /\ play_cell(calls'[q].board, calls[Parent(q)].next[1], Last(q))
                      = calls'[q].board
                /\ Tightens(calls[Parent(q)].board, calls'[q].board)
          /\ \A p \in DOMAIN calls :
                calls'[p].board # calls[p].board =>
                    Tightens(calls[p].board, calls'[p].board)]_vars

\* a clue has been played whose digit a played peer held: the peer has lost
\* its only candidate
C8_Witness ==
    /\ pc = "from_str"
    /\ Len(given) >= 1
    /\ given[Len(given)] > 0
    /\ \E j \in PeersOf[Len(given) - 1] :
          j \in board.played /\ Cand(board, j) = {}

(***************************************************************************)
(* C9 as stated.  On every board from_str builds, for every cell seeded    *)
(* with a digit d, no other cell of its row, column or block has d among   *)
(* its candidates.                                                         *)
(***************************************************************************)
C9_AsStated ==
    \A i \in DOMAIN given :
        given[i] > 0 =>
            \A j \in PeersOf[i - 1] : given[i] \notin Cand(board, j)

(***************************************************************************)
(* C9 as amended.  On every board from_str returns and on every board a    *)
(* call of solve starts with or arrives at, a played cell has at most one  *)
(* candidate, and if it still holds a digit d then no other cell of its    *)
(* row, column or block has d among its candidates.                        *)
(***************************************************************************)
PlayedExclusive(b) ==
    \A a \in b.played :
        /\ Cardinality(Cand(b, a)) <= 1
        /\ \A d \in Cand(b, a) : \A j \in PeersOf[a] : ~is_possible(b.cells[j], d)

C9_PlayedDigitExclusive ==
    [][\A p \in DOMAIN calls' :
          (p \notin DOMAIN calls \/ calls'[p].board # calls[p].board) =>
              PlayedExclusive(calls'[p].board)]_vars

\* a call of solve has committed cells of its own and still has open cells
C9_Witness ==
    \E p \in DOMAIN calls :
        /\ calls[p].state = "branching"
        /\ calls[p].board.played # board.played
        /\ \E a \in calls[p].board.played : Cardinality(Cand(calls[p].board, a)) = 1

(***************************************************************************)
(* C10.  Sibling branches never share board state: a step changes the      *)
(* board of the one call that takes it and of no other, starting a branch  *)
(* changes no existing call, and every branch returns a result that solve  *)
(* may return on the board the branch was started with.                    *)
(***************************************************************************)
ResultAlone(q) ==
    LET alone == SolveSet(BranchBoard(calls[Parent(q)].board,
                                      calls[Parent(q)].next[1], Last(q)))
    IN  IF calls[q].state = "solved"
        THEN calls[q].ret # None /\ calls[q].ret[1] \in alone
        ELSE calls[q].ret = None /\ alone = {}

C10_BranchIsolation ==
    /\ [] (pc = "done" => \A q \in DOMAIN calls \ {Root} : ResultAlone(q))
    /\ [][/\ \A q \in DOMAIN calls :
                calls'[q].board # calls[q].board =>
                    /\ calls[q].state = "propagating"
                    /\ \A r \in DOMAIN calls \ {q} : calls'[r] = calls[r]
          /\ Started # {} => \A q \in DOMAIN calls : calls'[q] = calls[q]]_vars

\* two sibling branches are in flight, one of which has committed cells
C10_Witness ==
    \E q, r \in DOMAIN calls \ {Root} :
        /\ q # r
        /\ Parent(q) = Parent(r)
        /\ calls[q].state = "branching"
        /\ calls[r].state = "unexplored"

(***************************************************************************)
(* The completions of the clues g, found without the solver: the full      *)
(* grids that carry every clue and repeat no digit in a row, column or     *)
(* block.  The cells are filled in row-major order.                        *)
(***************************************************************************)
RECURSIVE Completions(_, _)
Completions(g, grid) ==
    IF Len(grid) = BOARD_CELLS THEN {grid}
    ELSE LET i == Len(grid) + 1
         IN  UNION {Completions(g, Append(grid, d)) :
                        d \in {e \in (IF g[i] > 0 THEN {g[i]} ELSE Digits) :
                                  \A j \in EarlierPeers[i] : grid[j] # e}}

\* the board whose cells are all committed, to the digits of grid
BoardOf(grid) ==
    [cells |-> [i \in Idxs |-> fixed(grid[i + 1])], played |-> Idxs]

(***************************************************************************)
(* C11.  Whether main receives a board or None is decided by the clues     *)
(* alone, whatever the interleaving of the branches: it receives a board   *)
(* exactly when the clues have a completion.  When they have exactly one,  *)
(* the board received is that completion, all cells committed; only clues  *)
(* with several completions can come back with different boards.           *)
(***************************************************************************)
C11_ScheduleIndependent ==
    pc = "done" =>
        LET sols == Completions(given, << >>)
        IN  /\ ret # None <=> sols # {}
            /\ Cardinality(sols) = 1 => \A grid \in sols : ret = Some(BoardOf(grid))

\* clues with one completion were solved by a search in which two sibling
\* branches ran, one of them to a dead end
C11_Witness ==
    /\ pc = "done"
    /\ ret # None
    /\ \E q, r \in DOMAIN calls \ {Root} :
          /\ Parent(q) = Parent(r)
          /\ calls[q].state = "failed"
          /\ calls[r].state = "solved"
    /\ Cardinality(Completions(given, << >>)) = 1

(***************************************************************************)
(* C12.  solve on a board whose 81 cells are all committed and whose       *)
(* groups hold every digit once returns Some of that very board: the call  *)
(* passes verify, its scan commits nothing and returns the board with the  *)
(* same cells and the same played set, and the call never has a branch.    *)
(***************************************************************************)
C12_SolvedBoardReturned ==
    /\ [] (\A p \in DOMAIN calls :
              calls[p].board.played = Idxs => Children(p) = {})
    /\ [][\A p \in DOMAIN calls :
             (calls[p].board.played = Idxs /\ calls'[p] # calls[p]) =>
                 /\ (calls[p].state = "unexplored" /\ ValidSolution(calls[p].board))
                        => calls'[p] = [calls[p] EXCEPT !.state = "propagating"]
                 /\ calls[p].state = "propagating"
                        => calls'[p] = [calls[p] EXCEPT !.state = "solved",
                                                         !.ret = Some(calls[p].board)]]_vars

\* the stream was the whole solved grid, and main has the board from_str built
C12_Witness ==
    /\ pc = "done"
    /\ Holes(given) = 0
    /\ Altered(given) = 0
    /\ ret = Some(board)
    /\ DOMAIN calls = {Root}

(***************************************************************************)
(* Cells on their own.  A pair of Cell values is drawn, each from a set of *)
(* candidate digits and from the bits that carry no information (bit 0 and *)
(* bits 10-15); the step compares the two cells and lists and counts their *)
(* candidates.                                                             *)
(***************************************************************************)
CellDigitSets == (SUBSET {1, 5, 9}) \cup {Digits}

\* nothing; bit 0; bit 10; bit 15; bit 0 and bits 10-15
UnusedBits == {0, 1, 1024, 32768, 64513}

CellInputs == [digits : CellDigitSets, unused : UnusedBits]

\* Cell(raw): the u16 with the bits of c.digits and of c.unused set
CellOf(c) ==
    LET b(d) == IF d \in c.digits THEN Pow2(d) ELSE 0
    IN  c.unused + b(1) + b(2) + b(3) + b(4) + b(5) + b(6) + b(7) + b(8) + b(9)

CellInit ==
    /\ pc = "cells"
    /\ given \in CellInputs \X CellInputs
    /\ board = NewBoard
    /\ calls = << >>
    /\ ret = None

\* a == b, a.possibilities(), a.num_possibilities()
CellCompare ==
    /\ pc = "cells"
    /\ pc' = "compared"
    /\ ret' = Some([eq            |-> CellEq(CellOf(given[1]), CellOf(given[2])),
                    possibilities |-> possibilities(CellOf(given[1])),
                    num           |-> num_possibilities(CellOf(given[1]))])
    /\ UNCHANGED <<given, board, calls>>

CellNext == CellCompare

CellSpec == CellInit /\ [][CellNext]_vars

(***************************************************************************)
(* C13.  Equality, possibilities() and the candidate count of Cell values  *)
(* depend on bits 1-9 only: two cells are equal exactly when their sets of *)
(* candidate digits are equal, possibilities() lists the candidate digits  *)
(* in ascending order and the count is their number, whatever bit 0 and    *)
(* bits 10-15 are.                                                         *)
(***************************************************************************)
C13_OnlyDigitBits ==
    pc = "compared" =>
        /\ ret[1].eq <=> given[1].digits = given[2].digits
        /\ Range(ret[1].possibilities) = given[1].digits
        /\ Len(ret[1].possibilities) = Cardinality(given[1].digits)
        /\ \A j, k \in DOMAIN ret[1].possibilities :
              j < k => ret[1].possibilities[j] < ret[1].possibilities[k]
        /\ ret[1].num = Cardinality(given[1].digits)

\* the initial all-ones value was compared with the value that has only
\* bits 1-9 set: equal, nine candidates
C13_Witness ==
    /\ pc = "compared"
    /\ CellOf(given[1]) = any_possible
    /\ CellOf(given[2]) = 1022
    /\ ret[1].eq
    /\ ret[1].num = 9

\* every cell of b2 has its candidates among those it has in b
Narrowed(b, b2) ==
    \A i \in Idxs : b2.cells[i] = b.cells[i] \/ Cand(b2, i) \subseteq Cand(b, i)

\* the same, but for the cell a
NarrowedBut(b, b2, a) ==
    \A i \in Idxs \ {a} : b2.cells[i] = b.cells[i] \/ Cand(b2, i) \subseteq Cand(b, i)

(***************************************************************************)
(* C14 as stated.  Every play_cell (clue seeding, forced commit, branch    *)
(* commit) leaves every cell with a subset of the candidates it had.       *)
(***************************************************************************)
C14_AsStated ==
    [][/\ SeedPlay => Narrowed(board, board')
       /\ \A q \in Started \ {Root} :
             Narrowed(calls[Parent(q)].board, calls'[q].board)
       /\ \A p \in DOMAIN calls : Narrowed(calls[p].board, calls'[p].board)]_vars

(***************************************************************************)
(* C14 as amended.  The forced commits of a scan and every branch commit   *)
(* leave every cell with a subset of the candidates it had.  A seeded clue *)
(* does so for every cell but its own, and for its own cell when the digit *)
(* is still a candidate there; otherwise the cell is set to the digit that *)
(* an earlier clue had cleared from it.                                    *)
(***************************************************************************)
C14_Narrowing ==
    [][/\ SeedPlay =>
             /\ NarrowedBut(board, board', Len(given))
             /\ given'[Len(given')] \in Cand(board, Len(given))
                    => Narrowed(board, board')
             /\ Cand(board', Len(given)) = {given'[Len(given')]}
       /\ \A q \in Started \ {Root} :
             Narrowed(calls[Parent(q)].board, calls'[q].board)
       /\ \A p \in DOMAIN calls : Narrowed(calls[p].board, calls'[p].board)]_vars

\* the clue just seeded repeats the digit of an earlier clue of one of its
\* groups, which had cleared the digit from the cell: the cell holds it again
C14_Witness ==
    /\ pc = "from_str"
    /\ Len(given) >= 1
    /\ given[Len(given)] > 0
    /\ \E j \in PeersOf[Len(given) - 1] :
          j + 1 < Len(given) /\ given[j + 1] = given[Len(given)]
    /\ Cand(board, Len(given) - 1) = {given[Len(given)]}

Unplayed(b) == Idxs \ b.played

NumCand(b, i) == Cardinality(Cand(b, i))

\* the call p goes from propagating to branching in this step
StartsBranching(p) ==
    calls[p].state = "propagating" /\ calls'[p].state = "branching"

(***************************************************************************)
(* C15 as stated.  When a call is branching, no unplayed cell of its board *)
(* has exactly one candidate.                                              *)
(***************************************************************************)
C15_AsStated ==
    \A p \in DOMAIN calls :
        calls[p].state = "branching" =>
            \A i \in Unplayed(calls[p].board) : NumCand(calls[p].board, i) # 1

(***************************************************************************)
(* C15 as amended.  A call goes from propagating to branching after one    *)
(* pass over all 81 cells: every cell that is unplayed when branching      *)
(* starts had at least two candidates when the pass began, so every cell   *)
(* that was forced then has been committed.  Cells that a commit of the    *)
(* same pass narrowed to one candidate after their visit stay unplayed.    *)
(***************************************************************************)
C15_BranchAfterOnePass ==
    [][\A p \in DOMAIN calls :
          StartsBranching(p) =>
              /\ calls[p].board.played \subseteq calls'[p].board.played
              /\ \A i \in Unplayed(calls'[p].board) : NumCand(calls[p].board, i) >= 2
              /\ \A i \in Unplayed(calls[p].board) :
                    NumCand(calls[p].board, i) = 1 => i \in calls'[p].board.played]_vars

\* a call is branching whose scan has committed cells and has left an
\* unplayed cell with one candidate
C15_Witness ==
    \E p \in DOMAIN calls :
        /\ calls[p].state = "branching"
        /\ Cardinality(calls[p].board.played) > Cardinality(board.played) + Len(p)
        /\ \E i \in Unplayed(calls[p].board) : NumCand(calls[p].board, i) = 1

(***************************************************************************)
(* C16 as stated.  When a call is branching, no unplayed cell of its board *)
(* has strictly fewer candidates than the cell it branches on.             *)
(***************************************************************************)
C16_AsStated ==
    \A p \in DOMAIN calls :
        calls[p].state = "branching" =>
            \A i \in Unplayed(calls[p].board) :
                NumCand(calls[p].board, i) >= NumCand(calls[p].board, calls[p].next[1])

(***************************************************************************)
(* C16 as amended.  The cell a call branches on is unplayed, and no cell   *)
(* that is unplayed when branching starts had, when the scan began, fewer  *)
(* candidates than the chosen cell has; when the scan has committed        *)
(* nothing, the chosen cell has the fewest candidates of all unplayed      *)
(* cells.                                                                  *)
(***************************************************************************)
C16_FewestWhenVisited ==
    [][\A p \in DOMAIN calls :
          StartsBranching(p) =>
              LET b    == calls[p].board
                  b2   == calls'[p].board
                  next == calls'[p].next[1]
              IN  /\ next \in Unplayed(b2)
                  /\ \A i \in Unplayed(b2) : NumCand(b, i) >= NumCand(b2, next)
                  /\ b2 = b =>
                        \A i \in Unplayed(b2) : NumCand(b2, i) >= NumCand(b2, next)]_vars

\* a call branches on a cell with two candidates or more while another
\* unplayed cell has one, and a third has more than the chosen cell
C16_Witness ==
    \E p \in DOMAIN calls :
        /\ calls[p].state = "branching"
        /\ \E i, j \in Unplayed(calls[p].board) :
              /\ NumCand(calls[p].board, i) < NumCand(calls[p].board, calls[p].next[1])
              /\ NumCand(calls[p].board, j) > NumCand(calls[p].board, calls[p].next[1])

\* the place of cell i in column-major order: column by column, each
\* column from top to bottom
ColMajor(i) == (i % 9) * 9 + (i \div 9)

\* the unplayed cells of b that have as few candidates as any unplayed cell
Fewest(b) ==
    {i \in Unplayed(b) : \A j \in Unplayed(b) : NumCand(b, j) >= NumCand(b, i)}

(***************************************************************************)
(* C17 as stated.  When several unplayed cells tie for the fewest          *)
(* candidates, the call branches on the one that comes first in row-major  *)
(* order (col + row * 9 ascending).  Stated of the scans that commit       *)
(* nothing, during which the counts do not change.                         *)
(***************************************************************************)
C17_AsStated ==
    [][\A p \in DOMAIN calls :
          (StartsBranching(p) /\ calls'[p].board = calls[p].board) =>
              /\ calls'[p].next[1] \in Fewest(calls[p].board)
              /\ \A i \in Fewest(calls[p].board) : calls'[p].next[1] <= i]_vars

(***************************************************************************)
(* C17 as amended.  When several unplayed cells tie for the fewest         *)
(* candidates, the call branches on the one that comes first in            *)
(* column-major order (col * 9 + row ascending), the order of the scan.    *)
(* Stated of the scans that commit nothing.                                *)
(***************************************************************************)
C17_FirstInColumnMajor ==
    [][\A p \in DOMAIN calls :
          (StartsBranching(p) /\ calls'[p].board = calls[p].board) =>
              /\ calls'[p].next[1] \in Fewest(calls[p].board)
              /\ \A i \in Fewest(calls[p].board) :
                    ColMajor(calls'[p].next[1]) <= ColMajor(i)]_vars

\* the root call, whose scan committed nothing, branches on a cell although
\* a cell with as few candidates has a smaller linear address
C17_Witness ==
    /\ Root \in DOMAIN calls
    /\ calls[Root].state = "branching"
    /\ calls[Root].board = board
    /\ \E i \in Fewest(board) : i < calls[Root].next[1]

(***************************************************************************)
(* C18 as stated.  Once a branch of a branching call has returned a        *)
(* solution, the call can return it, also while sibling branches are still *)
(* in flight: its return is not held up by them.                           *)
(***************************************************************************)
C18_AsStated ==
    \A p \in DOMAIN calls :
        (calls[p].state = "branching"
            /\ \E q \in Children(p) : calls[q].state = "solved")
        => ENABLED Join(p)

\* the call p is past its verify check and has not failed
Explored(p) == calls[p].state \in {"propagating", "branching", "solved"}

(***************************************************************************)
(* C19.  In solve, play_cell is called only on a cell that is not yet      *)
(* played and with a digit that is a candidate of the cell: a scan leaves  *)
(* the cells that were played as they are and gives each cell it commits   *)
(* one of the candidates the cell had, and a branch commits a candidate of *)
(* an unplayed cell.  So on every board of a call that is past verify,     *)
(* also on the board of a scan that returns None, every played cell has    *)
(* exactly one candidate.                                                  *)
(***************************************************************************)
C19_PlayedKeepOne ==
    /\ [] (\A p \in DOMAIN calls :
              Explored(p) =>
                  \A i \in calls[p].board.played : NumCand(calls[p].board, i) = 1)
    /\ [][/\ \A p \in DOMAIN calls :
                (calls[p].state = "propagating" /\ calls'[p].state = "failed") =>
                    \A i \in calls'[p].board.played : NumCand(calls'[p].board, i) = 1
          /\ \A p \in DOMAIN calls :
                calls'[p].board # calls[p].board =>
                    /\ \A i \in calls[p].board.played :
                          calls'[p].board.cells[i] = calls[p].board.cells[i]
                    /\ \A i \in calls'[p].board.played \ calls[p].board.played :
                          /\ NumCand(calls'[p].board, i) = 1
                          /\ Cand(calls'[p].board, i) \subseteq Cand(calls[p].board, i)
          /\ \A q \in Started \ {Root} :
                /\ calls[Parent(q)].next[1] \in Unplayed(calls[Parent(q)].board)
                /\ Last(q) \in Cand(calls[Parent(q)].board, calls[Parent(q)].next[1])]_vars

\* a branch has returned a board on which its scan committed cells of its
\* own after the branch commit
C19_Witness ==
    \E q \in DOMAIN calls \ {Root} :
        /\ calls[q].state = "solved"
        /\ Cardinality(calls[q].board.played)
              > Cardinality(calls[Parent(q)].board.played) + 1

=============================================================================
